---- MODULE Spec2Model ----
(***************************************************************************)
(* A model of whatsapp_web_filter_multi-thread_cli.py: one run of main,    *)
(* in single mode (one session, driven by the main thread) or in threaded  *)
(* mode (filter_numbers_threaded: chunk_list, a ThreadPoolExecutor with    *)
(* one process_numbers_chunk task per chunk, as_completed, and the         *)
(* with-block's shutdown), followed by the final write_numbers calls and   *)
(* the run log line.                                                       *)
(*                                                                         *)
(* Files are sequences of characters.  A phone number is a sequence of     *)
(* digits 1..9 and the line feed is the character NL.  What the browser    *)
(* shows (login reached or not, the invalid-number modal, driver errors)   *)
(* is the environment's choice at the step that looks at it.               *)
(***************************************************************************)
EXTENDS Integers, Sequences, FiniteSets, TLC

\* ------------------------------------------------------------------ bounds
MaxNumbers == 3      \* longest cleaned input list of a run
MaxChunkSize == 2    \* largest --chunk-size of a run
MaxThreads == 2      \* largest --threads of a run
MaxAggregate == 3    \* longest list handed to write_numbers on its own
MaxDetNumbers == 2   \* longest input list of a run with a fixed classifier
MaxChunkInput == 7   \* longest list handed to chunk_list on its own
MaxChunkArg == 4     \* largest chunk size handed to chunk_list on its own
MaxWorkerId == 12    \* largest worker_id whose profile directory name is compared
MaxPolls == 3        \* wait_for_login's timeout, in polls of one second
MaxFileLen == 6      \* longest input file read on its own, in characters

\* The line feed written after every number ("\n").
NL == 10

\* The space character (" ").
SP == 32

VARIABLES
    mode,          \* args.mode: "single" or "threaded"
    numbers,       \* the cleaned input list (read_numbers_from_file's result)
    chunk_size,    \* args.chunk_size
    max_workers,   \* args.threads
    classifier,    \* what is fixed beforehand of what WhatsApp Web shows for a number
    mainpc,        \* where the main thread is
    chunks,        \* filter_numbers_threaded's chunks
    w,             \* the sessions' flows: w[t] is task t (a future and its call)
    numThreads,    \* threads the executor has started
    initFinished,  \* as_completed: futures already finished when it began, not yet yielded
    waiterQ,       \* as_completed: futures finished since, in completion order
    yieldOrder,    \* futures in the order as_completed yielded them
    mainExc,       \* the exception propagating out of the as_completed loop, if any
    all_valid,     \* all_valid (threaded) / valid (main)
    all_invalid,   \* all_invalid (threaded) / invalid (main)
    validFile,     \* content of args.valid_output
    invalidFile,   \* content of args.invalid_output
    runLog,        \* lines of run_log.txt
    inputFile,     \* content of args.input
    login,         \* wait_for_login taken poll by poll: where it is and what it saw
    firstWrite     \* the two output files as the first final overwrite left them

vars == << mode, numbers, chunk_size, max_workers, classifier, mainpc, chunks, w, numThreads,
           initFinished, waiterQ, yieldOrder, mainExc, all_valid, all_invalid,
           validFile, invalidFile, runLog, inputFile, login, firstWrite >>

config == << mode, numbers, chunk_size, max_workers, classifier >>
pool == << numThreads, initFinished, waiterQ, yieldOrder, mainExc >>
files == << validFile, invalidFile, runLog >>
aux == << inputFile, login, firstWrite >>

\* ------------------------------------------------------------ inputs
\* The i-th phone number of the input pool: distinct strings of length 1 or 2.
Num(i) == [k \in 1..(1 + (i % 2)) |-> i]

\* The cleaned input lists a run may be given: distinct numbers, no blank.
Inputs == { [i \in 1..n |-> Num(i)] : n \in 0..MaxNumbers }

\* What the output files and the run log hold when the run starts: an earlier
\* run left one number in each file and its summary line in the log.
PriorValid == << 9, NL >>
PriorInvalid == << 8, NL >>
PriorLog == << [ mode |-> "single", valid |-> 1, invalid |-> 1 ] >>

Min(a, b) == IF a < b THEN a ELSE b
Range(s) == { s[i] : i \in 1..Len(s) }

\* ------------------------------------------------------------ file helpers
\* The lines of a file, as reading it line by line gives them.
RECURSIVE LinesFrom(_, _, _)
LinesFrom(f, i, cur) ==
    IF i > Len(f)
      THEN (IF cur = << >> THEN << >> ELSE << cur >>)
      ELSE IF f[i] = NL
             THEN << cur >> \o LinesFrom(f, i + 1, << >>)
             ELSE LinesFrom(f, i + 1, Append(cur, f[i]))

Lines(f) == LinesFrom(f, 1, << >>)

\* strip as it would be if it took the spaces inside a line as well.
strip_all_spaces(line) == SelectSeq(line, LAMBDA c : c # SP)

\* line.strip(): the white space at both ends of the line is dropped.
RECURSIVE strip(_)
strip(line) ==
    IF line = << >> THEN << >>
    ELSE IF Head(line) = SP THEN strip(Tail(line))
    ELSE IF line[Len(line)] = SP THEN strip(SubSeq(line, 1, Len(line) - 1))
    ELSE line

\* The loop of read_numbers_from_file: blank lines are skipped, a line already
\* in seen is skipped, any other is appended to cleaned.
RECURSIVE clean_lines(_, _, _)
clean_lines(lines, seen, cleaned) ==
    IF lines = << >> THEN cleaned
    ELSE IF Head(lines) = << >> \/ Head(lines) \in seen
           THEN clean_lines(Tail(lines), seen, cleaned)
           ELSE clean_lines(Tail(lines), seen \cup { Head(lines) },
                            Append(cleaned, Head(lines)))

\* read_numbers_from_file: lines = [line.strip() for line in f], then the loop.
read_numbers_from_file(f) ==
    clean_lines([i \in 1..Len(Lines(f)) |-> strip(Lines(f)[i])], {}, << >>)

\* write_numbers as it would be if it skipped the numbers already written.
RECURSIVE write_numbers_unique(_)
write_numbers_unique(nums) ==
    IF nums = << >> THEN << >>
    ELSE Head(nums) \o << NL >>
         \o write_numbers_unique(SelectSeq(Tail(nums), LAMBDA x : x # Head(nums)))

\* write_numbers: the file is truncated and holds n + "\n" for each n, in order.
RECURSIVE write_numbers(_)
write_numbers(nums) ==
    IF nums = << >> THEN << >>
    ELSE Head(nums) \o << NL >> \o write_numbers(Tail(nums))

\* append_log as it would be if the log were opened for writing.
append_log_truncating(log, text) == << text >>

\* append_log: the log gains one line after those it has.
append_log(log, text) == Append(log, text)

\* One write of `data` at offset `off` (0-based) of file f: what a flush does
\* after the end of file was looked up.  Bytes already there are overwritten.
WriteAt(f, off, data) ==
    LET pre  == SubSeq(f, 1, Min(off, Len(f)))
        pad  == [i \in 1..(off - Len(f)) |-> 0]
        post == SubSeq(f, off + Len(data) + 1, Len(f))
    IN  pre \o pad \o data \o post

\* ------------------------------------------------------------ multithread helpers
\* chunk_list as it would be if each slice were lst[i:i+n+1].
RECURSIVE chunk_list_overlap(_, _)
chunk_list_overlap(lst, n) ==
    IF lst = << >> THEN << >>
    ELSE << SubSeq(lst, 1, Min(n + 1, Len(lst))) >>
         \o chunk_list_overlap(SubSeq(lst, Min(n, Len(lst)) + 1, Len(lst)), n)

\* chunk_list: lst[i:i+n] for i in range(0, len(lst), n).
RECURSIVE chunk_list(_, _)
chunk_list(lst, n) ==
    IF lst = << >> THEN << >>
    ELSE << SubSeq(lst, 1, Min(n, Len(lst))) >>
         \o chunk_list(SubSeq(lst, Min(n, Len(lst)) + 1, Len(lst)), n)

\* The pool as it would be with one thread per chunk.
workersPerChunk == Len(chunks)

\* workers = min(max_workers, len(chunks))
workers == Min(max_workers, Len(chunks))

Tasks == 1..Len(w)

\* The ended flows as they would be if a flow writing its line counted as ended.
TerminalWhileAppending == { "done", "failed", "append_write" }

\* The pcs of a flow that has ended: its future is finished, its thread is free.
Terminal == { "done", "failed" }
Active == { "create", "get", "login", "loop", "append_seek", "append_write",
            "finally" }

\* str(n) for n >= 0: the decimal digits.
RECURSIVE Str(_)
Str(n) == IF n < 10 THEN << n >> ELSE Str(n \div 10) \o << n % 10 >>

\* The suffix as it would be if the worker's number were left out.
profile_suffix_shared(worker_id) == << "worker_" >>

\* profile_suffix = f"worker_{worker_id}"
profile_suffix(worker_id) == << "worker_" >> \o Str(worker_id)

\* create_driver's profile directory:
\* base_profile_dir / f"chrome_whatsapp_profile_{profile_suffix}"
ProfileDir(suffix) == << "browser_profiles", "chrome_whatsapp_profile_" >> \o suffix

\* A new task as it would be if the flow walked its chunk from the last item.
NewTaskReversed(chunk, suffix, pc) ==
    [ pc |-> pc, chunk |-> [i \in 1..Len(chunk) |-> chunk[Len(chunk) + 1 - i]],
      profile |-> suffix, session |-> "none",
      dir |-> << >>, idx |-> 0, reg |-> FALSE, valid |-> << >>, invalid |-> << >>,
      off |-> 0, exc |-> "none", shot |-> << >> ]

\* A new task: the arguments of process_numbers_chunk (or of the single flow).
NewTask(chunk, suffix, pc) ==
    [ pc |-> pc, chunk |-> chunk, profile |-> suffix, session |-> "none",
      dir |-> << >>, idx |-> 0, reg |-> FALSE, valid |-> << >>, invalid |-> << >>,
      off |-> 0, exc |-> "none", shot |-> << >> ]

\* extend as it would be if it assigned the worker's list.
ExtendAssign(all, v) == v

\* extend as it would be if it put the worker's list in front.
ExtendFront(all, v) == v \o all

\* extend as it would be if only the first worker's list were taken.
ExtendFirst(all, v) == IF all = << >> THEN v ELSE all

\* all_valid.extend(v)
Extend(all, v) == all \o v

\* future.result() as it would be if a worker's error were dropped.
FutureNeverRaises(f) == FALSE

\* future.result(): re-raises what the call raised.
FutureRaises(f) == w[f].pc = "failed"

\* The exit as it would be with shutdown(wait=True, cancel_futures=True).
ShutdownCancelPending(ws) ==
    [ t \in DOMAIN ws |->
        IF ws[t].pc = "queued" THEN [ws[t] EXCEPT !.pc = "cancelled"] ELSE ws[t] ]

\* What shutdown(wait=True) does to the futures when the with block is left:
\* those still queued are not cancelled, they stay queued and are run.
ShutdownPending(ws) == ws

\* The two output files: args.valid_output and args.invalid_output.
ValidPath == << "valid_output" >>
InvalidPath == << "invalid_output" >>

\* ------------------------------------------------------------ Init
\* What open_chat_for_number sees after driver.get(url), as the browser decides.
Signals == { "modal", "no_modal", "probe_error", "nav_error" }

\* What one poll of wait_for_login finds: whether each of the five
\* find_elements calls has a match, and whether one of them raised.
Observations ==
    [ qr_elements : BOOLEAN, qr_containers : BOOLEAN, app_root : BOOLEAN,
      chat_list : BOOLEAN, conversation_header : BOOLEAN, raised : BOOLEAN ]

NoObservation ==
    [ qr_elements |-> FALSE, qr_containers |-> FALSE, app_root |-> FALSE,
      chat_list |-> FALSE, conversation_header |-> FALSE, raised |-> FALSE ]

\* wait_for_login has not been called.
LoginIdle == [ pc |-> "idle" ]

\* wait_for_login is entered: no time has passed, last_state is None, nothing
\* has been looked up.  readySeen tells whether some poll so far completed its
\* five lookups with a ready signal among them; shot is what became of the
\* screenshot and exc the error raised, neither of which there is yet.
LoginEntered ==
    [ pc |-> "polling", clock |-> 0, last_state |-> "None", obs |-> NoObservation,
      readySeen |-> FALSE, shot |-> "none", exc |-> "none" ]

\* Nothing has happened yet: no session, no pool, the files as an earlier run
\* left them.
Idle ==
    /\ login = LoginIdle
    /\ firstWrite = << >>
    /\ chunks = << >>
    /\ w = << >>
    /\ numThreads = 0
    /\ initFinished = {}
    /\ waiterQ = << >>
    /\ yieldOrder = << >>
    /\ mainExc = FALSE
    /\ all_valid = << >>
    /\ all_invalid = << >>
    /\ validFile = PriorValid
    /\ invalidFile = PriorInvalid
    /\ runLog = PriorLog

\* main has read its arguments and the input file, whose lines are the numbers;
\* nothing else has happened.
Fresh ==
    /\ mainpc = "start"
    /\ inputFile = write_numbers(numbers)
    /\ Idle

\* What the browser may show when the chat of number n is opened: the signals
\* fixed for n beforehand, or any signal when nothing is fixed for n.
SignalsFor(n) == IF n \in DOMAIN classifier THEN classifier[n] ELSE Signals

\* A run in either mode; the browser may show anything for any number.
Init ==
    /\ mode \in { "single", "threaded" }
    /\ numbers \in Inputs
    /\ chunk_size \in (IF mode = "single" THEN { 1 } ELSE 1..MaxChunkSize)
    /\ max_workers \in (IF mode = "single" THEN { 1 } ELSE 1..MaxThreads)
    /\ classifier = << >>
    /\ Fresh

\* ------------------------------------------------------------ the session flows
\* process_numbers_chunk (threaded mode, one call per chunk, run by a pool
\* thread) and main's single-mode branch with filter_numbers_single (run by the
\* main thread) are the same sequence of statements: create_driver,
\* driver.get(WHATSAPP_WEB_URL), try: wait_for_login, the loop over the numbers
\* with append_number, finally: driver.quit().  Task t of w is one such flow.

\* The loop goes on to item i, or is over.
LoopPc(chunk, i) == IF i <= Len(chunk) THEN "loop" ELSE "finally"

\* open_chat_for_number as it would be if an error while probing counted as
\* no modal.
open_chat_error_valid(signal) == signal \in { "no_modal", "probe_error" }

\* open_chat_for_number's is_registered, once navigation succeeded: True only
\* when the wait for the invalid-number modal times out.
open_chat_for_number(signal) == signal = "no_modal"

\* open_chat_for_number's reason, once navigation succeeded.
open_chat_reason(signal) ==
    CASE signal = "modal" -> << "Invalid popup detected" >>
      [] signal = "no_modal" -> << "No invalid popup detected within timeout" >>
      [] OTHER -> << "Error while checking popup", signal >>

\* driver.get(url) as it would be if its error were swallowed.
navigation_swallowed(signal) == FALSE

\* driver.get(url) in open_chat_for_number raises: it is outside the try block.
navigation_raises(signal) == signal = "nav_error"

\* A future that finishes while as_completed waits is added to its waiter.
Notify(t) == IF mainpc = "collect" THEN Append(waiterQ, t) ELSE waiterQ

\* A pool thread takes the next work item off the queue (first in, first out).
ThreadPick(t) ==
    /\ w[t].pc = "queued"
    /\ \A u \in Tasks : u < t => w[u].pc # "queued"
    /\ Cardinality({ u \in Tasks : w[u].pc \in Active }) < numThreads
    /\ w' = [w EXCEPT ![t].pc = "create"]
    /\ UNCHANGED << config, aux, mainpc, chunks, pool, all_valid, all_invalid, files >>

\* create_driver: a session bound to the profile directory, or SystemExit(1).
CreateDriver(t) ==
    /\ w[t].pc = "create"
    /\ \/ /\ w' = [w EXCEPT ![t].pc = "get", ![t].session = "open",
                            ![t].dir = ProfileDir(w[t].profile)]
          /\ UNCHANGED waiterQ
       \/ /\ w' = [w EXCEPT ![t].pc = "failed", ![t].exc = "SystemExit"]
          /\ waiterQ' = Notify(t)
    /\ UNCHANGED << config, aux, mainpc, chunks, numThreads, initFinished, yieldOrder,
                    mainExc, all_valid, all_invalid, files >>

\* driver.get(WHATSAPP_WEB_URL), before the try block: an error leaves the
\* function at once.
LandingGet(t) ==
    /\ w[t].pc = "get"
    /\ \/ /\ w' = [w EXCEPT ![t].pc = "login"]
          /\ UNCHANGED waiterQ
       \/ /\ w' = [w EXCEPT ![t].pc = "failed", ![t].exc = "WebDriverException"]
          /\ waiterQ' = Notify(t)
    /\ UNCHANGED << config, aux, mainpc, chunks, numThreads, initFinished, yieldOrder,
                    mainExc, all_valid, all_invalid, files >>

\* The file wait_for_login saves its screenshot to, in the working directory.
ScreenshotPath == << "whatsapp_login_timeout.png" >>

\* wait_for_login as it would be if the flow went on to its loop after the
\* timeout.
WaitForLoginSwallowed(t) ==
    /\ w[t].pc = "login"
    /\ \/ w' = [w EXCEPT ![t].pc = LoopPc(w[t].chunk, 1), ![t].idx = 1]
       \/ w' = [w EXCEPT ![t].pc = LoopPc(w[t].chunk, 1), ![t].idx = 1,
                         ![t].exc = "TimeoutException", ![t].shot = ScreenshotPath]
    /\ UNCHANGED << config, aux, mainpc, chunks, pool, all_valid, all_invalid, files >>

\* wait_for_login: returns once the main UI is seen, or, timed out, has the
\* driver save the screenshot and raises TimeoutException.  shot is the path
\* handed to driver.save_screenshot.
WaitForLogin(t) ==
    /\ w[t].pc = "login"
    /\ \/ w' = [w EXCEPT ![t].pc = LoopPc(w[t].chunk, 1), ![t].idx = 1]
       \/ w' = [w EXCEPT ![t].pc = "finally", ![t].exc = "TimeoutException",
                         ![t].shot = ScreenshotPath]
    /\ UNCHANGED << config, aux, mainpc, chunks, pool, all_valid, all_invalid, files >>

\* One iteration up to the flush in append_number: open_chat_for_number, then
\* valid.append(num) or invalid.append(num), then append_number opens the file
\* for appending and f.write puts number + "\n" in its buffer.  A navigation
\* error in open_chat_for_number is raised.
Classify(t) ==
    /\ w[t].pc = "loop"
    /\ \E signal \in SignalsFor(w[t].chunk[w[t].idx]) :
         LET num == w[t].chunk[w[t].idx]
             reg == open_chat_for_number(signal)
         IN  IF navigation_raises(signal)
               THEN w' = [w EXCEPT ![t].pc = "finally",
                                   ![t].exc = "WebDriverException"]
               ELSE w' = [w EXCEPT
                            ![t].pc = "append_seek",
                            ![t].reg = reg,
                            ![t].valid = IF reg THEN Append(@, num) ELSE @,
                            ![t].invalid = IF reg THEN @ ELSE Append(@, num)]
    /\ UNCHANGED << config, aux, mainpc, chunks, pool, all_valid, all_invalid, files >>

\* append_number, leaving the with block: the flush of an append-mode file first
\* finds the end of the file ...
AppendSeek(t) ==
    /\ w[t].pc = "append_seek"
    /\ w' = [w EXCEPT ![t].pc = "append_write",
                      ![t].off = Len(IF w[t].reg THEN validFile ELSE invalidFile)]
    /\ UNCHANGED << config, aux, mainpc, chunks, pool, all_valid, all_invalid, files >>

\* ... and then writes the line there; the file is closed and the loop goes on
\* (time.sleep(per_number_delay) changes nothing here).
AppendWrite(t) ==
    /\ w[t].pc = "append_write"
    /\ LET line == w[t].chunk[w[t].idx] \o << NL >>
       IN  IF w[t].reg
             THEN /\ validFile' = WriteAt(validFile, w[t].off, line)
                  /\ UNCHANGED invalidFile
             ELSE /\ invalidFile' = WriteAt(invalidFile, w[t].off, line)
                  /\ UNCHANGED validFile
    /\ w' = [w EXCEPT ![t].pc = LoopPc(w[t].chunk, w[t].idx + 1),
                      ![t].idx = w[t].idx + 1, ![t].reg = FALSE, ![t].off = 0]
    /\ UNCHANGED << config, aux, mainpc, chunks, pool, all_valid, all_invalid, runLog >>

\* finally: driver.quit(); then the lists are returned or the error goes on.
Quit(t) ==
    /\ w[t].pc = "finally"
    /\ w' = [w EXCEPT ![t].pc = IF w[t].exc = "none" THEN "done" ELSE "failed",
                      ![t].session = "closed"]
    /\ waiterQ' = Notify(t)
    /\ UNCHANGED << config, aux, mainpc, chunks, numThreads, initFinished, yieldOrder,
                    mainExc, all_valid, all_invalid, files >>

\* ------------------------------------------------------------ main, single mode
\* main, mode "single": create_driver(profile_suffix="single") and what follows,
\* one flow over all the numbers.
StartSingle ==
    /\ mainpc = "start" /\ mode = "single"
    /\ w' = << NewTask(numbers, << "single" >>, "create") >>
    /\ mainpc' = "single"
    /\ UNCHANGED << config, aux, chunks, pool, all_valid, all_invalid, files >>

\* valid, invalid = filter_numbers_single(...), or the error ends main.
SingleReturn ==
    /\ mainpc = "single" /\ w[1].pc \in Terminal
    /\ IF w[1].pc = "done"
         THEN /\ mainpc' = "write_valid"
              /\ all_valid' = w[1].valid
              /\ all_invalid' = w[1].invalid
         ELSE /\ mainpc' = "error"
              /\ UNCHANGED << all_valid, all_invalid >>
    /\ UNCHANGED << config, aux, chunks, w, pool, files >>

\* ------------------------------------------------------------ filter_numbers_threaded
\* The call: an empty list returns at once, otherwise the chunks are cut.
StartThreaded ==
    /\ mainpc = "start" /\ mode = "threaded"
    /\ IF numbers = << >>
         THEN mainpc' = "write_valid" /\ UNCHANGED chunks
         ELSE mainpc' = "submit" /\ chunks' = chunk_list(numbers, chunk_size)
    /\ UNCHANGED << config, aux, w, pool, all_valid, all_invalid, files >>

\* executor.submit(process_numbers_chunk, chunk, ..., worker_id): the work item
\* is queued; the executor starts a thread while it has fewer than max_workers.
Submit ==
    /\ mainpc = "submit"
    /\ LET worker_id == Len(w) + 1
       IN  /\ w' = Append(w, NewTask(chunks[worker_id], profile_suffix(worker_id),
                                     "queued"))
           /\ mainpc' = IF worker_id = Len(chunks) THEN "as_completed" ELSE "submit"
    /\ numThreads' = IF numThreads < workers THEN numThreads + 1 ELSE numThreads
    /\ UNCHANGED << config, aux, chunks, initFinished, waiterQ, yieldOrder, mainExc,
                    all_valid, all_invalid, files >>

\* as_completed(futures) begins: the futures already finished are set aside (a
\* set, yielded in no particular order) and a waiter is installed for the rest.
AsCompleted ==
    /\ mainpc = "as_completed"
    /\ initFinished' = { t \in Tasks : w[t].pc \in Terminal }
    /\ mainpc' = "collect"
    /\ UNCHANGED << config, aux, chunks, w, numThreads, waiterQ, yieldOrder, mainExc,
                    all_valid, all_invalid, files >>

\* The futures as_completed may yield next.
NextYield ==
    IF initFinished # {} THEN initFinished
    ELSE IF waiterQ # << >> THEN { Head(waiterQ) } ELSE {}

\* One iteration of "for future in as_completed(futures)": future.result(),
\* then the two extend calls.  When result() raises, or after the last future,
\* the with block is left: its exit calls shutdown(wait=True) ...
Collect ==
    /\ mainpc = "collect"
    /\ \E f \in NextYield :
         /\ yieldOrder' = Append(yieldOrder, f)
         /\ IF FutureRaises(f)
              THEN /\ mainExc' = TRUE
                   /\ mainpc' = "join"
                   /\ w' = ShutdownPending(w)
                   /\ initFinished' = {}
                   /\ waiterQ' = << >>
                   /\ UNCHANGED << all_valid, all_invalid >>
              ELSE /\ all_valid' = Extend(all_valid, w[f].valid)
                   /\ all_invalid' = Extend(all_invalid, w[f].invalid)
                   /\ initFinished' = initFinished \ { f }
                   /\ waiterQ' = IF initFinished # {} THEN waiterQ ELSE Tail(waiterQ)
                   /\ IF Len(yieldOrder) + 1 = Len(w)
                        THEN mainpc' = "join" /\ w' = ShutdownPending(w)
                        ELSE mainpc' = "collect" /\ UNCHANGED w
                   /\ UNCHANGED mainExc
    /\ UNCHANGED << config, aux, chunks, numThreads, files >>

\* No work item is left for the pool's threads.
PoolIdle == \A t \in Tasks : w[t].pc \in Terminal \cup { "cancelled" }

\* ... and returns when every thread has ended; then filter_numbers_threaded
\* returns all_valid, all_invalid, or the error leaves it (and main).
Join ==
    /\ mainpc = "join"
    /\ PoolIdle
    /\ mainpc' = IF mainExc THEN "error" ELSE "write_valid"
    /\ UNCHANGED << config, aux, chunks, w, pool, all_valid, all_invalid, files >>

\* ------------------------------------------------------------ main, the end of a run
\* The first final write as it would be if the file were opened for appending.
WriteValidAppending ==
    /\ mainpc = "write_valid"
    /\ validFile' = validFile \o write_numbers(all_valid)
    /\ mainpc' = "write_invalid"
    /\ UNCHANGED << config, aux, chunks, w, pool, all_valid, all_invalid, invalidFile,
                    runLog >>

\* write_numbers(valid_path, valid)
WriteValid ==
    /\ mainpc = "write_valid"
    /\ validFile' = write_numbers(all_valid)
    /\ mainpc' = "write_invalid"
    /\ UNCHANGED << config, aux, chunks, w, pool, all_valid, all_invalid, invalidFile,
                    runLog >>

\* The second final write as it would be if the file were opened for appending.
WriteInvalidAppending ==
    /\ mainpc = "write_invalid"
    /\ invalidFile' = invalidFile \o write_numbers(all_invalid)
    /\ mainpc' = "log"
    /\ UNCHANGED << config, aux, chunks, w, pool, all_valid, all_invalid, validFile,
                    runLog >>

\* write_numbers(invalid_path, invalid)
WriteInvalid ==
    /\ mainpc = "write_invalid"
    /\ invalidFile' = write_numbers(all_invalid)
    /\ mainpc' = "log"
    /\ UNCHANGED << config, aux, chunks, w, pool, all_valid, all_invalid, validFile,
                    runLog >>

\* The summary line of the run: mode and the two counts (the time and the paths
\* are left out).
Summary == [ mode |-> mode, valid |-> Len(all_valid), invalid |-> Len(all_invalid) ]

\* append_log(log_path, summary)
AppendLog ==
    /\ mainpc = "log"
    /\ runLog' = append_log(runLog, Summary)
    /\ mainpc' = "done"
    /\ UNCHANGED << config, aux, chunks, w, pool, all_valid, all_invalid, validFile,
                    invalidFile >>

Next ==
    \/ StartSingle \/ SingleReturn
    \/ StartThreaded \/ Submit \/ AsCompleted \/ Collect \/ Join
    \/ WriteValid \/ WriteInvalid \/ AppendLog
    \/ \E t \in Tasks : ThreadPick(t)
    \/ \E t \in Tasks : CreateDriver(t)
    \/ \E t \in Tasks : LandingGet(t)
    \/ \E t \in Tasks : WaitForLogin(t)
    \/ \E t \in Tasks : Classify(t)
    \/ \E t \in Tasks : AppendSeek(t)
    \/ \E t \in Tasks : AppendWrite(t)
    \/ \E t \in Tasks : Quit(t)

Spec == Init /\ [][Next]_vars

\* ------------------------------------------------------------ a deterministic classifier
\* The classifiers that answer the same for a number whenever it is asked: each
\* number has one signal that the browser shows for it.
Classifiers(nums) == [Range(nums) -> { { s } : s \in Signals }]

\* A run in either mode with the input and the classifier fixed beforehand.
InitDet ==
    /\ mode \in { "single", "threaded" }
    /\ numbers \in { [i \in 1..n |-> Num(i)] : n \in 0..MaxDetNumbers }
    /\ chunk_size \in (IF mode = "single" THEN { 1 } ELSE 1..MaxChunkSize)
    /\ max_workers \in (IF mode = "single" THEN { 1 } ELSE 1..MaxThreads)
    /\ classifier \in Classifiers(numbers)
    /\ Fresh

SpecDet == InitDet /\ [][Next]_vars

\* ------------------------------------------------------------ chunk_list alone
\* filter_numbers_threaded up to the last submit, for longer lists and larger
\* chunk sizes: the chunks are cut and one work item is queued for each.
InitChunk ==
    /\ mode = "threaded"
    /\ numbers \in { [i \in 1..n |-> Num(i)] : n \in 0..MaxChunkInput }
    /\ chunk_size \in 1..MaxChunkArg
    /\ max_workers = 1
    /\ classifier = << >>
    /\ Fresh

NextChunk == StartThreaded \/ Submit

SpecChunk == InitChunk /\ [][NextChunk]_vars

\* ------------------------------------------------------------ wait_for_login alone
\* The poll as it would be if the ready test were the elif of the QR test.
poll_returns_unless_qr(obs) ==
    /\ ~(obs.qr_elements \/ obs.qr_containers)
    /\ (obs.app_root \/ obs.chat_list \/ obs.conversation_header)

\* if app_root or chat_list or conversation_header: return
poll_returns(obs) == obs.app_root \/ obs.chat_list \/ obs.conversation_header

\* A poll completed its lookups and a ready signal is among what it found.
ReadyObserved(obs) ==
    ~obs.raised /\ (obs.app_root \/ obs.chat_list \/ obs.conversation_header)

\* end_time = time.time() + timeout; last_state = None
LoginStart ==
    /\ login.pc = "idle"
    /\ login' = LoginEntered
    /\ UNCHANGED << config, mainpc, chunks, w, pool, all_valid, all_invalid, files,
                    inputFile, firstWrite >>

\* The turn of the loop as it would be if no time passed in it: the deadline
\* never comes nearer.
PollTimeless ==
    /\ login.pc = "polling"
    /\ login.clock < MaxPolls
    /\ \E obs \in Observations :
         login' =
           IF obs.raised
             THEN [login EXCEPT !.obs = obs]
             ELSE [login EXCEPT
                     !.obs = obs,
                     !.readySeen = @ \/ ReadyObserved(obs),
                     !.last_state = IF obs.qr_elements \/ obs.qr_containers
                                      THEN "qr" ELSE @,
                     !.pc = IF poll_returns(obs) THEN "returned" ELSE @]
    /\ UNCHANGED << config, mainpc, chunks, w, pool, all_valid, all_invalid, files,
                    inputFile, firstWrite >>

\* The turn of the loop as it would be without the except clause: the error of
\* a lookup leaves wait_for_login.
PollRaising ==
    /\ login.pc = "polling"
    /\ login.clock < MaxPolls
    /\ \E obs \in Observations :
         login' =
           IF obs.raised
             THEN [login EXCEPT !.obs = obs, !.pc = "timed_out",
                                !.exc = "WebDriverException"]
             ELSE [login EXCEPT
                     !.obs = obs,
                     !.readySeen = @ \/ ReadyObserved(obs),
                     !.last_state = IF obs.qr_elements \/ obs.qr_containers
                                      THEN "qr" ELSE @,
                     !.pc = IF poll_returns(obs) THEN "returned" ELSE @,
                     !.clock = IF poll_returns(obs) THEN @ ELSE @ + 1]
    /\ UNCHANGED << config, mainpc, chunks, w, pool, all_valid, all_invalid, files,
                    inputFile, firstWrite >>

\* One turn of the while loop: the five lookups; an exception from any of them
\* is swallowed; a QR signal sets last_state; a ready signal returns; otherwise
\* time.sleep(1).
Poll ==
    /\ login.pc = "polling"
    /\ login.clock < MaxPolls
    /\ \E obs \in Observations :
         login' =
           IF obs.raised
             THEN [login EXCEPT !.obs = obs, !.clock = @ + 1]
             ELSE [login EXCEPT
                     !.obs = obs,
                     !.readySeen = @ \/ ReadyObserved(obs),
                     !.last_state = IF obs.qr_elements \/ obs.qr_containers
                                      THEN "qr" ELSE @,
                     !.pc = IF poll_returns(obs) THEN "returned" ELSE @,
                     !.clock = IF poll_returns(obs) THEN @ ELSE @ + 1]
    /\ UNCHANGED << config, mainpc, chunks, w, pool, all_valid, all_invalid, files,
                    inputFile, firstWrite >>

\* What leaves wait_for_login as it would be if the error of
\* driver.save_screenshot were not caught.
timeout_error_of_screenshot(saved) ==
    IF saved THEN "TimeoutException" ELSE "WebDriverException"

\* What leaves wait_for_login after the screenshot's try/except:
\* raise TimeoutException(...), whether the screenshot was saved or not.
timeout_error(saved) == "TimeoutException"

\* The loop is left with the time used up: driver.save_screenshot is called,
\* once, and saves the file or raises, which is caught; then
\* raise TimeoutException.
LoginTimeout ==
    /\ login.pc = "polling"
    /\ login.clock >= MaxPolls
    /\ \E saved \in BOOLEAN :
         login' = [login EXCEPT !.pc = "timed_out",
                                !.shot = IF saved THEN "saved" ELSE "failed",
                                !.exc = timeout_error(saved)]
    /\ UNCHANGED << config, mainpc, chunks, w, pool, all_valid, all_invalid, files,
                    inputFile, firstWrite >>

\* wait_for_login on a session of a run that has just started.
InitLogin ==
    /\ mode \in { "single", "threaded" }
    /\ numbers = << >>
    /\ chunk_size = 1
    /\ max_workers = 1
    /\ classifier = << >>
    /\ Fresh

NextLogin == LoginStart \/ Poll \/ LoginTimeout

SpecLogin == InitLogin /\ [][NextLogin]_vars

\* wait_for_login in a thread that keeps running: a turn of the loop, or the
\* leaving of it, that can be taken is taken.
SpecLoginFair == InitLogin /\ [][NextLogin]_vars /\ WF_vars(NextLogin)

\* ------------------------------------------------------------ read_numbers_from_file alone
\* The characters of an input file: two digits, the space and the line feed.
FileChars == { 1, 2, SP, NL }

\* The input files: any text of these characters, repeated and blank lines,
\* spaces at the ends and inside lines included.
RawFiles == UNION { [1..n -> FileChars] : n \in 0..MaxFileLen }

\* main before it reads the input file.
InitRead ==
    /\ mode \in { "single", "threaded" }
    /\ numbers = << >>
    /\ chunk_size = 1
    /\ max_workers = 1
    /\ classifier = << >>
    /\ mainpc = "read"
    /\ inputFile \in RawFiles
    /\ Idle

\* numbers = read_numbers_from_file(input_path)
ReadNumbers ==
    /\ mainpc = "read"
    /\ numbers' = read_numbers_from_file(inputFile)
    /\ mainpc' = "start"
    /\ UNCHANGED << mode, chunk_size, max_workers, classifier, chunks, w, pool,
                    all_valid, all_invalid, files, aux >>

NextRead == ReadNumbers

SpecRead == InitRead /\ [][NextRead]_vars

\* ------------------------------------------------------------ write_numbers alone
\* The lists write_numbers may be handed: any list over two numbers, repeats
\* included.
Aggregates ==
    UNION { [1..n -> { Num(1), Num(2) }] : n \in 0..MaxAggregate }

\* main at its final writes, with any two lists and either file content.
InitWrite ==
    /\ mode \in { "single", "threaded" }
    /\ numbers = << >>
    /\ chunk_size = 1
    /\ max_workers = 1
    /\ classifier = << >>
    /\ mainpc = "write_valid"
    /\ chunks = << >>
    /\ w = << >>
    /\ numThreads = 0
    /\ initFinished = {}
    /\ waiterQ = << >>
    /\ yieldOrder = << >>
    /\ mainExc = FALSE
    /\ all_valid \in Aggregates
    /\ all_invalid \in Aggregates
    /\ validFile \in { << >>, PriorValid }
    /\ invalidFile = PriorInvalid
    /\ runLog = PriorLog
    /\ inputFile = << >>
    /\ login = LoginIdle
    /\ firstWrite = << >>

NextWrite == WriteValid \/ WriteInvalid \/ AppendLog

SpecWrite == InitWrite /\ [][NextWrite]_vars

\* ------------------------------------------------------------ the final overwrite, twice
\* The final overwrite is performed once more with the same two lists: what the
\* first one left in the two files is kept in firstWrite.
WriteAgain ==
    /\ mainpc = "done"
    /\ firstWrite = << >>
    /\ firstWrite' = << validFile, invalidFile >>
    /\ mainpc' = "write_valid"
    /\ UNCHANGED << config, chunks, w, pool, all_valid, all_invalid, files,
                    inputFile, login >>

NextTwice == WriteValid \/ WriteInvalid \/ AppendLog \/ WriteAgain

SpecTwice == InitWrite /\ [][NextTwice]_vars

\* ------------------------------------------------------------ properties
Count(x, s) == Cardinality({ i \in 1..Len(s) : s[i] = x })
Front(s) == SubSeq(s, 1, Len(s) - 1)

\* The first occurrences of a list, in order.
RECURSIVE FirstOccurrences(_)
FirstOccurrences(s) ==
    IF s = << >> THEN << >>
    ELSE << Head(s) >>
         \o FirstOccurrences(SelectSeq(Tail(s), LAMBDA x : x # Head(s)))

\* main has left the session flows and is at, or past, the final writes.
Converging == mainpc \in { "write_valid", "write_invalid", "log", "done" }

\* The lines the run appended to a file, after those it held at the start.
Appended(f, prior) == SubSeq(Lines(f), Len(Lines(prior)) + 1, Len(Lines(f)))

\* The items of task t's chunk whose iteration is over.
Completed(t) ==
    IF w[t].idx = 0 THEN 0 ELSE w[t].idx - 1

\* The numbers for which task t's append_number call to the valid (invalid)
\* file has returned.
ReturnedValid(t) ==
    IF w[t].pc \in { "append_seek", "append_write" } /\ w[t].reg
      THEN Front(w[t].valid) ELSE w[t].valid
ReturnedInvalid(t) ==
    IF w[t].pc \in { "append_seek", "append_write" } /\ ~w[t].reg
      THEN Front(w[t].invalid) ELSE w[t].invalid

\* The workers' lists, concatenated in the given order of workers.
RECURSIVE ValidOf(_)
ValidOf(order) ==
    IF order = << >> THEN << >>
    ELSE w[Head(order)].valid \o ValidOf(Tail(order))
RECURSIVE InvalidOf(_)
InvalidOf(order) ==
    IF order = << >> THEN << >>
    ELSE w[Head(order)].invalid \o InvalidOf(Tail(order))

\* C1: a run reaches its final writes only with every input number in exactly
\* one of the two final lists, once; and when it is done each input number is
\* exactly one line of the two final files taken together.
C1_NoSilentDrop ==
    /\ Converging =>
         \A i \in 1..Len(numbers) :
           Count(numbers[i], all_valid) + Count(numbers[i], all_invalid) = 1
    /\ mainpc = "done" =>
         \A i \in 1..Len(numbers) :
           Count(numbers[i], Lines(validFile))
             + Count(numbers[i], Lines(invalidFile)) = 1

\* A threaded run over three numbers in several chunks is done, with numbers in
\* both files.
C1_Witness ==
    /\ mainpc = "done" /\ mode = "threaded"
    /\ Len(numbers) = 3 /\ Len(chunks) >= 2
    /\ all_valid # << >> /\ all_invalid # << >>

\* C2: while the workers append, each file holds exactly one complete line for
\* every append_number call that has returned, and nothing but whole lines: the
\* earlier lines and the numbers appended.
C2_AppendsAtomic ==
    ~Converging =>
      /\ \A t \in Tasks :
           /\ \A i \in 1..Len(ReturnedValid(t)) :
                Count(ReturnedValid(t)[i], Lines(validFile)) = 1
           /\ \A i \in 1..Len(ReturnedInvalid(t)) :
                Count(ReturnedInvalid(t)[i], Lines(invalidFile)) = 1
      /\ Range(Lines(validFile)) \subseteq Range(Lines(PriorValid)) \cup Range(numbers)
      /\ Range(Lines(invalidFile)) \subseteq Range(Lines(PriorInvalid)) \cup Range(numbers)

\* C3: a threaded run in which a worker failed and another succeeded ends done,
\* with the final lists written and one summary line added to the log, all three
\* holding the results of the workers that completed.
C3_PartialRunCompletes ==
    ( /\ mode = "threaded"
      /\ mainpc \in { "done", "error" }
      /\ \E t \in Tasks : w[t].pc = "failed"
      /\ \E t \in Tasks : w[t].pc = "done" )
    => /\ mainpc = "done"
       /\ runLog = Append(PriorLog, Summary)
       /\ Range(Lines(validFile)) = UNION { Range(w[t].valid) : t \in { u \in Tasks : w[u].pc = "done" } }
       /\ Range(Lines(invalidFile)) = UNION { Range(w[t].invalid) : t \in { u \in Tasks : w[u].pc = "done" } }

\* C4: no worker is ever cancelled, and when filter_numbers_threaded is left,
\* normally or by an error, every chunk has a worker that ran to its own end
\* (done or failed).
C4_NoFailFast ==
    mode = "threaded" =>
      /\ \A t \in Tasks : w[t].pc # "cancelled"
      /\ (Converging \/ mainpc = "error") =>
           /\ Len(w) = Len(chunks)
           /\ \A t \in Tasks : w[t].pc \in Terminal

\* One thread, three chunks: the first worker failed, and the two that were
\* still queued behind it have run to the end.
C4_Witness ==
    /\ mode = "threaded" /\ max_workers = 1 /\ Len(chunks) = 3
    /\ mainpc = "error"
    /\ w[1].pc = "failed" /\ w[2].pc = "done" /\ w[3].pc = "done"

\* C5: filter_numbers_threaded returns normally only when no worker failed, and
\* an error leaves it only when some worker failed and every worker is done or
\* failed.
C5_ErrorSurfaced ==
    mode = "threaded" =>
      /\ Converging => \A t \in Tasks : w[t].pc = "done"
      /\ mainpc = "error" =>
           /\ \E t \in Tasks : w[t].pc = "failed"
           /\ \A t \in Tasks : w[t].pc \in Terminal

\* The error was raised at the first future yielded, a failed one, and has left
\* after the other workers, never yielded, ended.
C5_Witness ==
    /\ mode = "threaded" /\ mainpc = "error"
    /\ Len(w) = 3 /\ Len(yieldOrder) = 1
    /\ w[yieldOrder[1]].pc = "failed"
    /\ \E t \in Tasks : w[t].pc = "done"

\* C6: the workers between their start and their end are never more than
\* min(max_workers, number of chunks).
C6_WorkerBound ==
    mode = "threaded" =>
      Cardinality({ t \in Tasks : w[t].pc \in Active })
        <= Min(max_workers, Len(chunks))

\* Three chunks and two threads: two workers hold a session and the third waits.
C6_Witness ==
    /\ mode = "threaded" /\ max_workers = 2 /\ Len(chunks) = 3
    /\ Cardinality({ t \in Tasks : w[t].pc \in Active /\ w[t].session = "open" }) = 2
    /\ \E t \in Tasks : w[t].pc = "queued"

\* C7: no flow has ended with its session open.
C7_SessionReleased ==
    \A t \in Tasks : w[t].pc \in Terminal => w[t].session # "open"

\* C8: while the incremental files are what the run has written, every item of
\* a worker's chunk whose iteration is over is a line of the file of its
\* verdict, whatever became of the worker and of the others.
C8_IncrementalPersistence ==
    ~Converging =>
      \A t \in Tasks : \A k \in 1..Completed(t) :
        LET num == w[t].chunk[k]
        IN  IF num \in Range(w[t].valid)
              THEN num \in Range(Lines(validFile))
              ELSE num \in Range(Lines(invalidFile))

C10_FirstSeenOrder ==
    ( /\ mode = "threaded" /\ mainpc = "write_valid"
      /\ Len(Appended(validFile, PriorValid)) = Len(all_valid)
      /\ Range(Appended(validFile, PriorValid)) = Range(all_valid)
      /\ Len(Appended(invalidFile, PriorInvalid)) = Len(all_invalid)
      /\ Range(Appended(invalidFile, PriorInvalid)) = Range(all_invalid) )
    => /\ all_valid = Appended(validFile, PriorValid)
       /\ all_invalid = Appended(invalidFile, PriorInvalid)

\* C10 (amended): in threaded mode each final file holds the workers' lists one
\* after the other, in the order as_completed yielded the workers, each list in
\* chunk order.
C10_PerWorkerOrder ==
    (mode = "threaded" /\ mainpc = "done") =>
      /\ Lines(validFile) = ValidOf(yieldOrder)
      /\ Lines(invalidFile) = InvalidOf(yieldOrder)

\* The second worker was yielded first; the first worker's two valid numbers
\* follow the second worker's in the final file.
C10_Witness ==
    /\ mode = "threaded" /\ mainpc = "done"
    /\ yieldOrder = << 2, 1 >>
    /\ Len(w[1].valid) = 2 /\ Len(w[2].valid) = 1

\* The numbers the classifier answers valid for.
Registered ==
    { n \in Range(numbers) : \A s \in SignalsFor(n) : open_chat_for_number(s) }

\* C11: with the input and a deterministic classifier fixed, a run that is done
\* (so no worker failed) has in its valid file exactly the numbers the classifier
\* answers valid for and in its invalid file exactly the others: the same two
\* sets in single mode and in threaded mode, for every chunk size, worker count
\* and order in which the workers ran and completed.
C11_MembershipDeterministic ==
    mainpc = "done" =>
      /\ Range(Lines(validFile)) = Registered
      /\ Range(Lines(invalidFile)) = Range(numbers) \ Registered

\* A threaded run of two workers is done; the second worker completed first, and
\* the classifier answered valid for one number and invalid for the other.
C11_Witness ==
    /\ mode = "threaded" /\ mainpc = "done"
    /\ yieldOrder = << 2, 1 >>
    /\ Registered # {} /\ Registered # Range(numbers)

\* ceil(L / C)
Ceil(L, C) == (L + C - 1) \div C

\* The lists of a list of lists, one after the other.
RECURSIVE Flatten(_)
Flatten(ss) == IF ss = << >> THEN << >> ELSE Head(ss) \o Flatten(Tail(ss))

\* C12: once filter_numbers_threaded has cut the list of length L into chunks of
\* size C there are ceil(L/C) chunks; chunk k is the slice of the list from
\* (k-1)*C+1 to min(k*C, L), so it has between 1 and C elements and only the last
\* may have fewer than C; the chunks share no element and, one after the other,
\* they are the list.  The empty list gives no chunk.
C12_ChunkPartition ==
    /\ chunk_list(<< >>, chunk_size) = << >>
    /\ (mode = "threaded" /\ mainpc # "start") =>
         LET L == Len(numbers)
             C == chunk_size
         IN  /\ Len(chunks) = Ceil(L, C)
             /\ \A k \in 1..Len(chunks) :
                  /\ chunks[k] = SubSeq(numbers, (k - 1) * C + 1, Min(k * C, L))
                  /\ Len(chunks[k]) >= 1 /\ Len(chunks[k]) <= C
                  /\ k < Len(chunks) => Len(chunks[k]) = C
             /\ \A j, k \in 1..Len(chunks) :
                  j # k => Range(chunks[j]) \cap Range(chunks[k]) = {}
             /\ Flatten(chunks) = numbers

\* Five numbers were cut by two: three chunks, the last one shorter, and all
\* three are submitted.
C12_Witness ==
    /\ Len(numbers) = 5 /\ chunk_size = 2
    /\ Len(chunks) = 3 /\ Len(chunks[3]) = 1
    /\ Len(w) = 3

\* C13: in a threaded run the worker of chunk k has the identity made from k,
\* no two workers have the same profile directory, and two sessions that are
\* open at the same time are bound to different directories; the directory name
\* is different for any two different worker numbers.
C13_ProfilesDistinct ==
    /\ mode = "threaded" =>
         /\ \A t \in Tasks :
              /\ w[t].chunk = chunks[t]
              /\ w[t].profile = profile_suffix(t)
              /\ w[t].session = "open" => w[t].dir = ProfileDir(w[t].profile)
         /\ \A t, u \in Tasks :
              t < u =>
                /\ ProfileDir(w[t].profile) # ProfileDir(w[u].profile)
                /\ (w[t].session = "open" /\ w[u].session = "open")
                     => w[t].dir # w[u].dir
    /\ mainpc = "start" =>
         \A i, j \in 1..MaxWorkerId :
           i # j => ProfileDir(profile_suffix(i)) # ProfileDir(profile_suffix(j))

\* Two workers hold an open session at the same time, each in its loop.
C13_Witness ==
    /\ mode = "threaded"
    /\ \E t, u \in Tasks :
         /\ t # u
         /\ w[t].pc = "loop" /\ w[t].session = "open"
         /\ w[u].pc = "loop" /\ w[u].session = "open"

\* The files and directories task t has had written: its profile directory, the
\* login screenshot, and the output files it has appended to.
WrittenPaths(t) ==
    { p \in { w[t].dir, w[t].shot } : p # << >> }
      \cup (IF w[t].valid # << >> THEN { ValidPath } ELSE {})
      \cup (IF w[t].invalid # << >> THEN { InvalidPath } ELSE {})

\* C14: in a threaded run a path that two workers have written is one of the
\* two output files.
C14_OnlyOutputsShared ==
    mode = "threaded" =>
      \A t, u \in Tasks :
        t # u => (WrittenPaths(t) \cap WrittenPaths(u))
                   \subseteq { ValidPath, InvalidPath }

\* The signal a deterministic classifier shows for number n.
SignalOf(n) == CHOOSE s \in SignalsFor(n) : TRUE

\* The items of task t's chunk for which open_chat_for_number has returned.
Classified(t) == Len(w[t].valid) + Len(w[t].invalid)

\* C15: for every number for which open_chat_for_number has returned, the
\* verdict recorded is the one of the signal shown: the modal gives invalid, no
\* modal before the timeout gives valid, an error while probing gives invalid
\* with the error in the reason; a number is recorded valid only when no modal
\* was shown.
C15_VerdictMapping ==
    \A t \in Tasks : \A k \in 1..Classified(t) :
      LET num == w[t].chunk[k]
          sig == SignalOf(num)
          isValid == num \in Range(w[t].valid)
          isInvalid == num \in Range(w[t].invalid)
      IN  /\ sig \in { "modal", "no_modal", "probe_error" }
          /\ isValid # isInvalid
          /\ sig = "modal" => isInvalid
          /\ sig = "no_modal" => isValid
          /\ sig = "probe_error" =>
               isInvalid /\ open_chat_reason(sig)[2] = "probe_error"
          /\ isValid => sig = "no_modal"

\* A single-mode run is done: the first number's probe raised an error and the
\* number is in the invalid list, the second showed no modal and is in the valid
\* list.
C15_Witness ==
    /\ mode = "single" /\ mainpc = "done" /\ Len(numbers) = 2
    /\ SignalOf(numbers[1]) = "probe_error" /\ all_invalid = << numbers[1] >>
    /\ SignalOf(numbers[2]) = "no_modal" /\ all_valid = << numbers[2] >>

\* C16: a worker has a navigation error from its loop only at a number whose
\* navigation fails, never at a number that shows the modal, no modal or a
\* probing error; and a number whose navigation fails has no verdict, nor has
\* any later number of its chunk, the worker going to its end (finally, failed)
\* with the error.
C16_RaisesOnlyOnNavigation ==
    \A t \in Tasks :
      /\ (w[t].exc = "WebDriverException" /\ w[t].idx >= 1) =>
            /\ SignalOf(w[t].chunk[w[t].idx]) = "nav_error"
            /\ w[t].pc \in { "finally", "failed" }
      /\ \A k \in 1..Len(w[t].chunk) :
            SignalOf(w[t].chunk[k]) = "nav_error" =>
              /\ w[t].idx <= k
              /\ Classified(t) < k
              /\ \A j \in k..Len(w[t].chunk) :
                    w[t].chunk[j] \notin Range(w[t].valid) \cup Range(w[t].invalid)
      /\ (w[t].idx >= 1 /\ w[t].idx <= Len(w[t].chunk) /\ w[t].pc \in Terminal) =>
            /\ SignalOf(w[t].chunk[w[t].idx]) = "nav_error"
            /\ w[t].exc = "WebDriverException"

\* A threaded worker classified the first number of its chunk, the navigation
\* to the second failed, and the worker has ended with that error.
C16_Witness ==
    /\ mode = "threaded"
    /\ \E t \in Tasks :
         /\ w[t].pc = "failed" /\ w[t].exc = "WebDriverException"
         /\ w[t].idx = 2 /\ Classified(t) = 1
         /\ w[t].session = "closed"

\* C17: once a poll has completed its lookups with a ready signal among them,
\* wait_for_login has returned, on that poll: it is never still polling, nor
\* timed out, after such a poll, whatever QR signal that poll or an earlier one
\* found; and it returns only on such a poll.
C17_ReadyWins ==
    login.pc # "idle" =>
      /\ login.readySeen => login.pc = "returned"
      /\ ReadyObserved(login.obs) => login.pc = "returned"
      /\ login.pc = "returned" => ReadyObserved(login.obs)

\* wait_for_login returned on a later poll that found a QR signal and a ready
\* signal together.
C17_Witness ==
    /\ login.pc = "returned" /\ login.clock >= 1
    /\ login.last_state = "qr"
    /\ login.obs.qr_elements /\ login.obs.chat_list

\* A line without the spaces at its two ends: the part from its first to its
\* last character that is not a space.
Trimmed(line) ==
    LET inked == { i \in 1..Len(line) : line[i] # SP }
    IN  IF inked = {} THEN << >>
        ELSE SubSeq(line, CHOOSE a \in inked : \A i \in inked : a <= i,
                          CHOOSE b \in inked : \A i \in inked : i <= b)

\* The lines of the input file, each trimmed.
TrimmedLines ==
    [i \in 1..Len(Lines(inputFile)) |-> Trimmed(Lines(inputFile)[i])]

\* Where x first occurs in s.
FirstIndex(x, s) ==
    CHOOSE i \in 1..Len(s) : s[i] = x /\ \A j \in 1..(i - 1) : s[j] # x

\* C18: the list read from the input file has every non-blank trimmed line of
\* the file exactly once, has nothing else, and is in the order in which the
\* lines first occur; lines are the same only when their trimmed texts are
\* equal character by character.
C18_ReadDedup ==
    mainpc = "start" =>
      /\ \A i \in 1..Len(TrimmedLines) :
           TrimmedLines[i] # << >> => Count(TrimmedLines[i], numbers) = 1
      /\ \A j \in 1..Len(numbers) :
           numbers[j] # << >> /\ numbers[j] \in Range(TrimmedLines)
      /\ \A j, k \in 1..Len(numbers) :
           j < k => FirstIndex(numbers[j], TrimmedLines)
                      < FirstIndex(numbers[k], TrimmedLines)

\* The file read has a blank line and a line that occurs twice, the second time
\* with a space in front; the list has that line once.
C18_Witness ==
    /\ mainpc = "start"
    /\ inputFile = << 1, NL, NL, SP, 1, NL >>
    /\ numbers = << << 1 >> >>

\* C19: until a run is done the run log is as it was; a run that is done has
\* added one line after the lines the log had, which are unchanged, and the
\* line's mode is the run's and its two counts are the numbers of lines of the
\* final valid and invalid files.
C19_LogAppendOnly ==
    /\ mainpc # "done" => runLog = PriorLog
    /\ mainpc = "done" =>
         /\ Len(runLog) = Len(PriorLog) + 1
         /\ SubSeq(runLog, 1, Len(PriorLog)) = PriorLog
         /\ runLog[Len(runLog)].mode = mode
         /\ runLog[Len(runLog)].valid = Len(Lines(validFile))
         /\ runLog[Len(runLog)].invalid = Len(Lines(invalidFile))

\* A single-mode run of three numbers is done with the line valid 2, invalid 1
\* after the earlier line of the log.
C19_Witness ==
    /\ mainpc = "done" /\ mode = "single"
    /\ runLog = Append(PriorLog, [ mode |-> "single", valid |-> 2, invalid |-> 1 ])

\* C20: when the final overwrite is performed a second time with the same
\* lists, each file is, once rewritten, what the first overwrite left in it,
\* whatever the file held before the first.
C20_OverwriteIdempotent ==
    firstWrite # << >> =>
      /\ mainpc \in { "write_invalid", "log", "done" } => validFile = firstWrite[1]
      /\ mainpc \in { "log", "done" } => invalidFile = firstWrite[2]

\* Both files have been rewritten twice from lists that are not empty, over a
\* valid file that held an earlier run's line.
C20_Witness ==
    /\ firstWrite # << >> /\ mainpc = "done"
    /\ all_valid # << >> /\ all_invalid # << >>
    /\ validFile = write_numbers(all_valid)
    /\ Len(runLog) = Len(PriorLog) + 2

\* C21: when main is at its final writes or past them, every chunk has a worker
\* and no flow is queued or between its start and its end; so no flow is at an
\* append, or can come to one, once the final overwrite has begun.
C21_WriteAfterWorkers ==
    Converging =>
      /\ mode = "threaded" => Len(w) = Len(chunks)
      /\ \A t \in Tasks : w[t].pc \notin Active \cup { "queued", "cancelled" }

\* The valid file has been overwritten in a threaded run of two workers, each
\* of which had appended a line to one of the files before it ended.
C21_Witness ==
    /\ mode = "threaded" /\ mainpc = "write_invalid"
    /\ Len(w) = 2
    /\ \A t \in Tasks : w[t].pc = "done" /\ Classified(t) >= 1
    /\ validFile = write_numbers(all_valid)

\* C22: while the workers append, and once an append has returned, every line
\* of the valid (invalid) file is a number some flow of this run has recorded
\* valid (invalid).
C22_OnlyClassifiedLines ==
    (~Converging /\ \E t \in Tasks : Completed(t) >= 1) =>
      /\ Range(Lines(validFile)) \subseteq UNION { Range(w[t].valid) : t \in Tasks }
      /\ Range(Lines(invalidFile)) \subseteq UNION { Range(w[t].invalid) : t \in Tasks }

\* C23: once both final writes are made each output file is, character by
\* character, its list written one number a line, and its lines are the list:
\* a line the file held before the run or took from an append is there only as
\* an element of the list.
C23_FinalIsAggregate ==
    mainpc \in { "log", "done" } =>
      /\ validFile = write_numbers(all_valid)
      /\ invalidFile = write_numbers(all_invalid)
      /\ Range(Lines(validFile)) = Range(all_valid)
      /\ Range(Lines(invalidFile)) = Range(all_invalid)
      /\ Len(Lines(validFile)) = Len(all_valid)
      /\ Len(Lines(invalidFile)) = Len(all_invalid)
      /\ \A l \in Range(Lines(PriorValid)) :
           l \notin Range(all_valid) => l \notin Range(Lines(validFile))
      /\ \A l \in Range(Lines(PriorInvalid)) :
           l \notin Range(all_invalid) => l \notin Range(Lines(invalidFile))

\* A run of two numbers is done with both found invalid: the valid file, which
\* held an earlier run's line, is empty and the invalid file holds the two.
C23_Witness ==
    /\ mainpc = "done" /\ Len(numbers) = 2
    /\ all_valid = << >> /\ validFile = << >>
    /\ Lines(invalidFile) = numbers

\* The chunk flow t was handed: the whole list in single mode, chunk t otherwise.
ChunkOf(t) == IF mode = "single" THEN numbers ELSE chunks[t]

\* C24: the numbers a flow has a verdict for are the first ones of its chunk,
\* with no gap; its valid list and its invalid list are those numbers of each
\* verdict in chunk order; and the flow is at item i only with the verdicts of
\* the i-1 items before it recorded and their appends returned, item i's own
\* append being the only one it can be in.
C24_ChunkOrder ==
    \A t \in Tasks :
      LET chunk == ChunkOf(t)
          n == Classified(t)
          before == SubSeq(chunk, 1, n)
          IsValid(x) == x \in Range(w[t].valid)
          IsInvalid(x) == x \in Range(w[t].invalid)
      IN  /\ n <= Len(chunk)
          /\ w[t].valid = SelectSeq(before, IsValid)
          /\ w[t].invalid = SelectSeq(before, IsInvalid)
          /\ Range(w[t].valid) \cap Range(w[t].invalid) = {}
          /\ w[t].pc \in { "append_seek", "append_write" } => n = w[t].idx
          /\ (w[t].idx >= 1 /\ w[t].pc \notin { "append_seek", "append_write" })
               => n = w[t].idx - 1

\* A flow is at the second item of its chunk: the first one has its verdict
\* and its line, the second has none yet.
C24_Witness ==
    \E t \in Tasks :
      /\ Len(w[t].chunk) = 2 /\ w[t].pc = "loop" /\ w[t].idx = 2
      /\ w[t].invalid = << w[t].chunk[1] >>
      /\ w[t].chunk[1] \in Range(Lines(invalidFile))

\* How far a flow is: queued, create_driver, landing page, login, loop, finally,
\* ended.
Stage(pc) ==
    CASE pc \in { "queued", "cancelled" } -> 0
      [] pc = "create" -> 1
      [] pc = "get" -> 2
      [] pc = "login" -> 3
      [] pc \in { "loop", "append_seek", "append_write" } -> 4
      [] pc = "finally" -> 5
      [] OTHER -> 6

\* C25: a flow never goes back to an earlier stage, so it is in wait_for_login
\* at most once; wait_for_login ends returned or with TimeoutException; only
\* its return puts the flow at the first item (idx 1), and a flow is in its loop
\* only so; a flow at no item has no verdict; and a flow whose login timed out
\* is at no item, has no verdict (so no append) and is at its finally or failed.
C25_LoginGate ==
    /\ [](\A t \in Tasks :
            /\ w[t].pc \in { "loop", "append_seek", "append_write" } => w[t].idx >= 1
            /\ w[t].idx = 0 => Classified(t) = 0
            /\ w[t].exc = "TimeoutException" =>
                 /\ w[t].idx = 0 /\ Classified(t) = 0
                 /\ w[t].pc \in { "finally", "failed" })
    /\ [][\A t \in Tasks : w'[t] # w[t] =>
            /\ Stage(w'[t].pc) >= Stage(w[t].pc)
            /\ (w[t].idx = 0 /\ w'[t].idx >= 1) => w[t].pc = "login"
            /\ (w[t].exc # "TimeoutException" /\ w'[t].exc = "TimeoutException")
                 => w[t].pc = "login"
            /\ (w[t].pc = "login" /\ w'[t].pc # "login")
                 => \/ w'[t].idx = 1 /\ w'[t].exc = "none"
                    \/ w'[t].idx = 0 /\ w'[t].exc = "TimeoutException"]_vars

\* In a threaded run one worker's login timed out and the worker has failed
\* with no verdict, while another worker, logged in, has classified a number.
C25_Witness ==
    /\ mode = "threaded"
    /\ \E t, u \in Tasks :
         /\ w[t].pc = "failed" /\ w[t].exc = "TimeoutException"
         /\ Classified(t) = 0 /\ w[t].session = "closed"
         /\ w[u].exc = "none" /\ Classified(u) >= 1

\* wait_for_login has ended: it returned (READY) or raised (TIMEOUT).
LoginEnded == login.pc \in { "returned", "timed_out" }

\* C26: wait_for_login, once entered, ends; it ends returned with no error or
\* timed out with one, never both; and once it has ended nothing of it changes
\* any more, so it polls no further.
C26_LoginEnds ==
    /\ (login.pc = "polling") ~> LoginEnded
    /\ [](login.pc = "returned" => login.exc = "none" /\ login.clock < MaxPolls)
    /\ [](login.pc = "timed_out" => login.exc # "none" /\ login.clock >= MaxPolls)
    /\ [][LoginEnded => login' = login]_vars

\* wait_for_login has timed out after a last poll that found the QR code and
\* no ready signal.
C26_Witness ==
    /\ login.pc = "timed_out" /\ login.clock = MaxPolls
    /\ login.obs.qr_elements /\ ~ReadyObserved(login.obs)

\* C27: wait_for_login, while it polls, has no error; a step leaves the polling
\* only by a poll that completed its lookups with a ready signal, or with the
\* time used up; every other poll, one of whose lookups raised or which found
\* no ready signal, leaves it polling, one turn later, with no error.
C27_PollSurvives ==
    /\ [](login.pc = "polling" => login.exc = "none" /\ login.shot = "none")
    /\ [][(login.pc = "polling" /\ login' # login) =>
            \/ /\ login'.pc = "returned"
               /\ ReadyObserved(login'.obs)
            \/ /\ login'.pc = "timed_out"
               /\ login.clock >= MaxPolls
               /\ login'.obs = login.obs
            \/ /\ login'.pc = "polling"
               /\ ~ReadyObserved(login'.obs)
               /\ login'.clock = login.clock + 1
               /\ login'.exc = "none"]_vars

\* After two polls wait_for_login is still polling, the second poll having
\* raised in a lookup.
C27_Witness ==
    /\ login.pc = "polling" /\ login.clock = 2
    /\ login.obs.raised /\ login.exc = "none"

\* C28: wait_for_login that has timed out has had driver.save_screenshot
\* called, and has raised TimeoutException whether the screenshot was saved or
\* failed; there is no screenshot without the timeout.
C28_TimeoutRaises ==
    login.pc # "idle" =>
      /\ login.pc = "timed_out" =>
           /\ login.shot \in { "saved", "failed" }
           /\ login.exc = "TimeoutException"
      /\ login.pc # "timed_out" => login.shot = "none"

\* wait_for_login has raised TimeoutException after a screenshot that failed.
C28_Witness ==
    /\ login.pc = "timed_out"
    /\ login.shot = "failed" /\ login.exc = "TimeoutException"

====
